---- MODULE Spec2Model ----
(***************************************************************************)
(* Point-cloud construction and RANSAC plane fitting, as implemented twice *)
(* in the repository:                                                      *)
(*   "app"     : findPlanesRansac     (app/src/main/cpp/ransac.cpp)        *)
(*   "android" : detect_walls_ransac  (android/app/src/main/cpp/ransac.cpp)*)
(* One behaviour of the model is one call of one of the two functions.     *)
(*                                                                         *)
(* Numbers.  Inverse depths are integers in units of 1e-6 (InvScale is     *)
(* 1.0), chosen among divisors of InvScale so that Z = 1/inverseDepth is   *)
(* an exact integer.  Coordinates are integers in units of 1/CoordDen,     *)
(* which makes the divisions by fx and fy exact (CoordDen is 1 for unit    *)
(* intrinsics).  A plane is kept as the un-normalised integer normal n     *)
(* together with m2, the square of the length it was divided by, and dn,   *)
(* the offset before that division:                                        *)
(*     (a, b, c) = n / sqrt(m2),   d = dn / sqrt(m2).                      *)
(* Comparisons of distances are done on squares, which is exact.           *)
(* Floating-point rounding is not modelled.                                *)
(***************************************************************************)
EXTENDS Integers, Sequences, FiniteSets, TLC

VARIABLES
    impl,               \* which of the two functions is called
    depthMap,           \* the caller's buffer (sequence of inverse depths)
    width, height,      \* int width, int height
    distanceThreshold,  \* in units of 1/ThrDen
    minInliers,         \* int minInliers / min_inliers
    maxIterations,      \* int maxIterations / max_iterations
    maxPlanes,          \* int max_planes (android only)
    intrinsics,         \* float fx, fy, cx, cy
    other,              \* a second call, on another thread, while it is
                        \* not the one taking a step
    jni,                \* the JNI entry detectWallsRansac around the call
    pc,                 \* position in the function
    pointCloud,         \* std::vector<Point3D>
    iter,               \* loop counter
    idx,                \* <<idx1, idx2, idx3>>
    bestPlane,          \* bestPlane / best_plane_A..D
    bestCount,          \* maxInliersFound / best_inlier_count
    out,                \* returned vector (app) / out_planes_buffer (android)
    ret,                \* android: the int returned; app: size of the vector
    rngUsed,            \* history: has dist(rng) been called
    scored              \* history: <<plane, count>> of every scored iteration

vars == <<impl, depthMap, width, height, distanceThreshold, minInliers,
          maxIterations, maxPlanes, intrinsics, other, jni, pc, pointCloud,
          iter, idx, bestPlane, bestCount, out, ret, rngUsed, scored>>

inputs == <<impl, depthMap, width, height, distanceThreshold, minInliers,
            maxIterations, maxPlanes, intrinsics>>

(***************************************************************************)
(* Bounds of the model and domains of the inputs.                          *)
(***************************************************************************)
MaxW == 3
MaxH == 2
MaxCells == 4
MaxIter == 2

InvScale == 1000000
ThrDen == 100

Impls == {"app", "android"}
Widths == -2 .. MaxW
Heights == 0 .. MaxH
\* 0, 5e-6 (below both validity epsilons), 0.5 and 1.0
InvDepths == {0, 5, 500000, 1000000}
\* 1.0
Thresholds == {100}
MinInliersSet == {-1, 0, 4}
MaxIterationsSet == -1 .. MaxIter
MaxPlanesSet == {0, 2}

\* Camera intrinsics passed by the caller.
fx == intrinsics.fx
fy == intrinsics.fy
cx == intrinsics.cx
cy == intrinsics.cy

\* The intrinsics of the calls of Spec.
UnitIntrinsics == [fx |-> 1, fy |-> 1, cx |-> 0, cy |-> 0]

\* Coordinates are kept as multiples of 1/CoordDen.
CoordDen == IF fx = fy THEN fx ELSE fx * fy

(***************************************************************************)
(* Arithmetic helpers.                                                     *)
(***************************************************************************)
\* C++ integer division truncates toward zero.
TruncDiv(a, b) == IF a >= 0 THEN a \div b ELSE -((-a) \div b)

Sub(p, q) == <<p[1] - q[1], p[2] - q[2], p[3] - q[3]>>

Dot(p, q) == p[1] * q[1] + p[2] * q[2] + p[3] * q[3]

Cross(v1, v2) == <<v1[2] * v2[3] - v1[3] * v2[2],
                   v1[3] * v2[1] - v1[1] * v2[3],
                   v1[1] * v2[2] - v1[2] * v2[1]>>

(***************************************************************************)
(* Planes.                                                                 *)
(***************************************************************************)
\* Plane bestPlane = {0.0f, 0.0f, 0.0f, 0.0f}
ZeroPlane == [nan |-> FALSE, n |-> <<0, 0, 0>>, m2 |-> 1, dn |-> 0]

\* {NAN, NAN, NAN, NAN}
NaNPlane == [nan |-> TRUE, n |-> <<0, 0, 0>>, m2 |-> 1, dn |-> 0]

\* What a slot of the caller's output buffer holds before the call: a value
\* that no call writes (m2 = 0).
Unwritten ==
    [plane |-> [nan |-> FALSE, n |-> <<0, 0, 0>>, m2 |-> 0, dn |-> 0],
     inlierCount |-> -1]

\* Mutant of Normalize: the normal is not divided by its length.
NormalizeNoDivide(n, len2, p1) ==
    IF len2 = 0 THEN NaNPlane
    ELSE [nan |-> FALSE, n |-> n, m2 |-> 1, dn |-> -Dot(n, p1)]

\* n divided by the length whose square is len2; 0/0 is NaN.
Normalize(n, len2, p1) ==
    IF len2 = 0 THEN NaNPlane
    ELSE [nan |-> FALSE, n |-> n, m2 |-> len2, dn |-> -Dot(n, p1)]

\* length > std::numeric_limits<float>::epsilon() * 100 (about 1.2e-5): the
\* length of an integer vector is 0 or at least 1.
LengthAboveEps(len2) == len2 >= 1

\* Mutant of MagnitudeBelowEps: the degeneracy test never fires.
MagnitudeNeverBelowEps(len2) == FALSE

\* magnitude < 1e-6, same remark.
MagnitudeBelowEps(len2) == len2 < 1

\* app: calculatePlane; NaN plane when the points are collinear or coincident.
calculatePlane(p1, p2, p3) ==
    LET v1 == Sub(p2, p1)
        v2 == Sub(p3, p1)
        n == Cross(v1, v2)
        len2 == Dot(n, n)
    IN  IF LengthAboveEps(len2) THEN Normalize(n, len2, p1) ELSE NaNPlane

\* android: lines 105-130; skip is the `continue` of line 123.
CandidateInline(p1, p2, p3) ==
    LET v1 == Sub(p2, p1)
        v2 == Sub(p3, p1)
        n == Cross(v1, v2)
        len2 == Dot(n, n)
    IN  IF MagnitudeBelowEps(len2)
        THEN [skip |-> TRUE, plane |-> ZeroPlane]
        ELSE [skip |-> FALSE, plane |-> Normalize(n, len2, p1)]

\* The candidate of one iteration in either function.
Candidate(im, p1, p2, p3) ==
    IF im = "app"
    THEN LET cur == calculatePlane(p1, p2, p3)
         IN  [skip |-> cur.nan, plane |-> cur]
    ELSE CandidateInline(p1, p2, p3)

\* Mutant of IsInlier: a point exactly at the threshold counts.
IsInlierOrAtThreshold(pt, plane, thr) ==
    /\ ~plane.nan
    /\ thr > 0
    /\ LET num == Dot(plane.n, pt) + plane.dn
       IN  num * num * ThrDen * ThrDen
               <= thr * thr * plane.m2 * CoordDen * CoordDen

\* pointPlaneDistance(point, plane) < distanceThreshold, i.e.
\* |n.pt + dn| / sqrt(m2) < thr / ThrDen.  A NaN compares false.
IsInlier(pt, plane, thr) ==
    /\ ~plane.nan
    /\ thr > 0
    /\ LET num == Dot(plane.n, pt) + plane.dn
       IN  num * num * ThrDen * ThrDen
               < thr * thr * plane.m2 * CoordDen * CoordDen

\* The inlier scan: for (const auto& pt : pointCloud) ...
RECURSIVE CountFrom(_, _, _, _)
CountFrom(cloud, k, plane, thr) ==
    IF k > Len(cloud) THEN 0
    ELSE (IF IsInlier(cloud[k], plane, thr) THEN 1 ELSE 0)
         + CountFrom(cloud, k + 1, plane, thr)

CountInliers(cloud, plane, thr) == CountFrom(cloud, 1, plane, thr)

\* Mutant of Improves: a tie replaces the retained model.
ImprovesOrTies(current, best) == current >= best

\* if (currentInliers > maxInliersFound)
Improves(current, best) == current > best

(***************************************************************************)
(* Point-cloud builder.                                                    *)
(***************************************************************************)
EpsApp == 10
EpsAndroid == 10000
ZCeiling == 1000

\* Mutant of CellValid: every positive inverse depth is accepted.
CellValidIfPositive(im, inv) == inv > 0

\* Mutant of CellValid: detect_walls_ransac keeps a cell exactly at its
\* epsilon.
CellValidAtEps(im, inv) ==
    IF im = "app"
    THEN ~(inv < EpsApp) /\ ~(InvScale \div inv > ZCeiling)
    ELSE inv >= EpsAndroid

\* Mutant of CellValid: findPlanesRansac without the test of z against the
\* ceiling.
CellValidNoCeiling(im, inv) ==
    IF im = "app" THEN ~(inv < EpsApp) ELSE inv > EpsAndroid

\* Does the cell pass the validity filter of the function?
CellValid(im, inv) ==
    IF im = "app"
    THEN ~(inv < EpsApp) /\ ~(InvScale \div inv > ZCeiling)
    ELSE inv > EpsAndroid

\* The point of a valid cell at column u, row v, in units of 1/CoordDen:
\* X = (u - cx) * Z / fx, Y = (v - cy) * Z / fy, and android's Y = -Y.
BackProject(im, u, v, inv) ==
    LET Z == InvScale \div inv
        X == (u - cx) * Z * (CoordDen \div fx)
        Y == (v - cy) * Z * (CoordDen \div fy)
    IN  IF im = "app" THEN <<X, Y, Z * CoordDen>>
        ELSE <<X, -Y, Z * CoordDen>>

\* The two nested loops, cell k (0-based, row-major) onwards; mem is what
\* the reads depth_map_data[v * width + u] return.
RECURSIVE BuildFrom(_, _, _, _, _)
BuildFrom(im, mem, w, h, k) ==
    IF k >= w * h THEN <<>>
    ELSE LET u == k % w
             v == k \div w
             inv == mem[k + 1]
         IN  (IF CellValid(im, inv)
              THEN <<BackProject(im, u, v, inv)>>
              ELSE <<>>) \o BuildFrom(im, mem, w, h, k + 1)

BuildCloud(im, mem, w, h) ==
    IF w <= 0 \/ h <= 0 THEN <<>> ELSE BuildFrom(im, mem, w, h, 0)

\* pointCloud.reserve(width * height / 4): a negative request converts to a
\* size_t above max_size() and reserve throws std::length_error.
ReserveThrows(w, h) == TruncDiv(w * h, 4) < 0

\* Number of cells the loops read.
CellsRead(w, h) == IF w <= 0 \/ h <= 0 THEN 0 ELSE w * h

\* size() < static_cast<size_t>(m): a negative m converts to a value above
\* every possible size.
SizeBelowCast(size, m) == IF m < 0 THEN TRUE ELSE size < m

\* Mutant of TooFewPoints: a cloud of two points is let through.
TooFewBelowTwo(size, m) == size < 2 \/ SizeBelowCast(size, m)

\* Mutant of TooFewPoints: the test against 3 is left out.
TooFewForMinimumOnly(size, m) == SizeBelowCast(size, m)

\* The check before the loop.
TooFewPoints(size, m) == size < 3 \/ SizeBelowCast(size, m)

(***************************************************************************)
(* Result packaging.                                                       *)
(***************************************************************************)
PlaneResult(plane, count) == [plane |-> plane, inlierCount |-> count]

\* Mutant of Qualifies: a count equal to the minimum is turned down.
QualifiesStrictly(best, m) == best > m

\* if (maxInliersFound >= minInliers) / (best_inlier_count >= min_inliers)
Qualifies(best, m) == best >= m

\* app: the vector returned after the loop (lines 198-225).
PackageApp(plane, best, m) ==
    IF Qualifies(best, m) THEN <<PlaneResult(plane, best)>> ELSE <<>>

\* Mutant of WritesBuffer: the capacity of the buffer is not looked at.
WritesBufferUnchecked(best, m, cap) == best >= m

\* android: does the function write out_planes_buffer[0] (line 162)?
WritesBuffer(best, m, cap) == Qualifies(best, m) /\ cap >= 1

\* Mutant of PackageAndroid: every slot of the buffer is filled.
PackageAndroidFill(buf, plane, best, m, cap) ==
    IF WritesBuffer(best, m, cap)
    THEN [i \in 1 .. Len(buf) |-> PlaneResult(plane, best)]
    ELSE buf

\* android: the buffer after the final step (lines 162-182).
PackageAndroid(buf, plane, best, m, cap) ==
    IF WritesBuffer(best, m, cap)
    THEN [buf EXCEPT ![1] = PlaneResult(plane, best)]
    ELSE buf

(***************************************************************************)
(* The call.                                                               *)
(***************************************************************************)
\* Lengths of the caller's buffer: the right one and, for single-row grids,
\* one cell short.
BufLens(w, h) ==
    {CellsRead(w, h)} \cup (IF h = 1 /\ w >= 1 THEN {w - 1} ELSE {})

\* No second call.
NoCall == [pc |-> "none"]

\* The locals of a call that has not started.
FreshCall ==
    /\ pc = "start"
    /\ pointCloud = <<>>
    /\ iter = 0
    /\ idx = <<0, 0, 0>>
    /\ bestPlane = ZeroPlane
    /\ bestCount = -1
    /\ ret = -1
    /\ rngUsed = FALSE
    /\ scored = <<>>

\* The caller's output before the call.
FreshOutput(im, cap) ==
    IF im = "android" THEN [i \in 1 .. cap |-> Unwritten] ELSE <<>>

\* The function is called directly, not through the JNI entry.
NoBridge == [pc |-> "none"]

\* The inputs and fresh locals of one call.
CallInit ==
    /\ impl \in Impls
    /\ width \in Widths
    /\ height \in Heights
    /\ CellsRead(width, height) <= MaxCells
    /\ \E len \in BufLens(width, height) : depthMap \in [1 .. len -> InvDepths]
    /\ distanceThreshold \in Thresholds
    /\ minInliers \in MinInliersSet
    /\ maxIterations \in MaxIterationsSet
    /\ maxPlanes \in (IF impl = "android" THEN MaxPlanesSet ELSE {1})
    /\ intrinsics = UnitIntrinsics
    /\ other = NoCall
    /\ out = FreshOutput(impl, maxPlanes)
    /\ FreshCall

Init == CallInit /\ jni = NoBridge

\* reserve() throws before anything is read.
ReserveFails ==
    /\ pc = "start"
    /\ ReserveThrows(width, height)
    /\ pc' = "threw"
    /\ UNCHANGED <<inputs, other, jni, pointCloud, iter, idx, bestPlane,
                   bestCount, out, ret, rngUsed, scored>>

\* The two nested loops.  A read past the end of the caller's buffer is
\* undefined: it returns any value (here) or faults (ReadFaults).
BuildPointCloud ==
    /\ pc = "start"
    /\ ~ReserveThrows(width, height)
    /\ LET missing == CellsRead(width, height) - Len(depthMap)
       IN  \E tail \in [1 .. missing -> InvDepths] :
               pointCloud' = BuildCloud(impl, depthMap \o tail, width, height)
    /\ pc' = "check"
    /\ UNCHANGED <<inputs, other, jni, iter, idx, bestPlane, bestCount, out,
                   ret, rngUsed, scored>>

ReadFaults ==
    /\ pc = "start"
    /\ ~ReserveThrows(width, height)
    /\ CellsRead(width, height) > Len(depthMap)
    /\ pc' = "crashed"
    /\ UNCHANGED <<inputs, other, jni, pointCloud, iter, idx, bestPlane,
                   bestCount, out, ret, rngUsed, scored>>

\* Not enough points: return {} / return 0.
EarlyExit ==
    /\ pc = "check"
    /\ TooFewPoints(Len(pointCloud), minInliers)
    /\ pc' = "exit_early"
    /\ ret' = 0
    /\ UNCHANGED <<inputs, other, jni, pointCloud, iter, idx, bestPlane,
                   bestCount, out, rngUsed, scored>>

\* Initial value of maxInliersFound / best_inlier_count.
InitialBestCount == -1

\* Enough points: initialise the best model, the generator and the loop.
StartLoop ==
    /\ pc = "check"
    /\ ~TooFewPoints(Len(pointCloud), minInliers)
    /\ bestPlane' = ZeroPlane
    /\ bestCount' = InitialBestCount
    /\ iter' = 0
    /\ pc' = "loop"
    /\ UNCHANGED <<inputs, other, jni, pointCloud, idx, out, ret, rngUsed,
                   scored>>

\* Mutant of Indices: the distribution reaches the size of the cloud.
IndicesUpToSize == 0 .. Len(pointCloud)

\* uniform_int_distribution<size_t>(0, size - 1)
Indices == 0 .. Len(pointCloud) - 1

\* Mutant of KeepsIterating: the loop stops once a candidate has the whole
\* cloud as inliers.
KeepsIteratingUntilConverged(i, m) == i < m /\ bestCount < Len(pointCloud)

\* The loop test: iter < maxIterations.
KeepsIterating(i, m) == i < m

\* Loop test passed: three draws.
Sample ==
    /\ pc = "loop"
    /\ KeepsIterating(iter, maxIterations)
    /\ \E i1 \in Indices, i2 \in Indices, i3 \in Indices : idx' = <<i1, i2, i3>>
    /\ rngUsed' = TRUE
    /\ pc' = "sampled"
    /\ UNCHANGED <<inputs, other, jni, pointCloud, iter, bestPlane,
                   bestCount, out, ret, scored>>

\* if (idx1 == idx2 || idx1 == idx3 || idx2 == idx3)
Collides(t) == t[1] = t[2] \/ t[1] = t[3] \/ t[2] = t[3]

\* app: the iteration is given up on a collision (continue).
SkipCollision ==
    /\ pc = "sampled"
    /\ impl = "app"
    /\ Collides(idx)
    /\ iter' = iter + 1
    /\ idx' = <<0, 0, 0>>
    /\ pc' = "loop"
    /\ UNCHANGED <<inputs, other, jni, pointCloud, bestPlane, bestCount, out,
                   ret, rngUsed, scored>>

\* android: the conditions of the two while loops.
SecondCollides(t) == t[2] = t[1]

\* Mutant of ThirdCollides: the third index is compared with the first only.
ThirdCollidesWithFirst(t) == t[3] = t[1]

ThirdCollides(t) == t[3] = t[1] \/ t[3] = t[2]

\* The triple goes on to the plane computation.
Proceeds(im, t) ==
    IF im = "app" THEN ~Collides(t)
    ELSE ~SecondCollides(t) /\ ~ThirdCollides(t)

\* android: while (idx2 == idx1) { idx2 = distrib(gen); }
ResampleSecond ==
    /\ pc = "sampled"
    /\ impl = "android"
    /\ SecondCollides(idx)
    /\ \E i \in Indices : idx' = <<idx[1], i, idx[3]>>
    /\ UNCHANGED <<inputs, other, jni, pc, pointCloud, iter, bestPlane,
                   bestCount, out, ret, rngUsed, scored>>

\* android: while (idx3 == idx1 || idx3 == idx2) { idx3 = distrib(gen); }
ResampleThird ==
    /\ pc = "sampled"
    /\ impl = "android"
    /\ ~SecondCollides(idx)
    /\ ThirdCollides(idx)
    /\ \E i \in Indices : idx' = <<idx[1], idx[2], i>>
    /\ UNCHANGED <<inputs, other, jni, pc, pointCloud, iter, bestPlane,
                   bestCount, out, ret, rngUsed, scored>>

\* The candidate plane of the sampled triple.
Current == Candidate(impl, pointCloud[idx[1] + 1], pointCloud[idx[2] + 1],
                     pointCloud[idx[3] + 1])

\* Collinear or coincident sample: continue.
SkipDegenerate ==
    /\ pc = "sampled"
    /\ Proceeds(impl, idx)
    /\ Current.skip
    /\ iter' = iter + 1
    /\ idx' = <<0, 0, 0>>
    /\ pc' = "loop"
    /\ UNCHANGED <<inputs, other, jni, pointCloud, bestPlane, bestCount, out,
                   ret, rngUsed, scored>>

\* Mutant of Score: the inliers of the scored candidate are taken out of the
\* cloud.
ScoreRemovingInliers ==
    /\ pc = "sampled"
    /\ Proceeds(impl, idx)
    /\ ~Current.skip
    /\ \E plane \in {Current.plane} :
       \E count \in {CountInliers(pointCloud, plane, distanceThreshold)} :
           LET Keep(pt) == ~IsInlier(pt, plane, distanceThreshold)
           IN  /\ scored' = Append(scored, <<plane, count>>)
               /\ pointCloud' = SelectSeq(pointCloud, Keep)
               /\ IF Improves(count, bestCount)
                  THEN bestCount' = count /\ bestPlane' = plane
                  ELSE UNCHANGED <<bestCount, bestPlane>>
    /\ iter' = iter + 1
    /\ idx' = <<0, 0, 0>>
    /\ pc' = "loop"
    /\ UNCHANGED <<inputs, other, jni, out, ret, rngUsed>>

\* Inlier scan and update of the best model.  The candidate plane and its
\* count are computed once and then used.
Score ==
    /\ pc = "sampled"
    /\ Proceeds(impl, idx)
    /\ ~Current.skip
    /\ \E plane \in {Current.plane} :
       \E count \in {CountInliers(pointCloud, plane, distanceThreshold)} :
           /\ scored' = Append(scored, <<plane, count>>)
           /\ IF Improves(count, bestCount)
              THEN bestCount' = count /\ bestPlane' = plane
              ELSE UNCHANGED <<bestCount, bestPlane>>
    /\ iter' = iter + 1
    /\ idx' = <<0, 0, 0>>
    /\ pc' = "loop"
    /\ UNCHANGED <<inputs, other, jni, pointCloud, out, ret, rngUsed>>

\* Loop test failed: final check and result packaging.
Finish ==
    /\ pc = "loop"
    /\ ~KeepsIterating(iter, maxIterations)
    /\ IF impl = "app"
       THEN /\ out' = PackageApp(bestPlane, bestCount, minInliers)
            /\ ret' = Len(out')
       ELSE /\ out' = PackageAndroid(out, bestPlane, bestCount, minInliers,
                                     maxPlanes)
            /\ ret' = (IF WritesBuffer(bestCount, minInliers, maxPlanes)
                       THEN 1 ELSE 0)
    /\ pc' = "exit_final"
    /\ UNCHANGED <<inputs, other, jni, pointCloud, iter, idx, bestPlane,
                   bestCount, rngUsed, scored>>

Next ==
    \/ ReserveFails
    \/ BuildPointCloud
    \/ ReadFaults
    \/ EarlyExit
    \/ StartLoop
    \/ Sample
    \/ SkipCollision
    \/ ResampleSecond
    \/ ResampleThird
    \/ SkipDegenerate
    \/ Score
    \/ Finish

Spec == Init /\ [][Next]_vars

\* A call has ended: it returned, threw from reserve(), or faulted.
Terminated == pc \in {"exit_early", "exit_final", "threw", "crashed"}

\* A draw of the first retry loop that ends it.
SecondDrawnDistinct == ResampleSecond /\ ~SecondCollides(idx')

\* A draw of the second retry loop that ends it.
ThirdDrawnDistinct == ResampleThird /\ ~ThirdCollides(idx')

\* The calls of Init on buffers of at most 3 cells holding 0, 0.5 or 1.0,
\* that ask for no minimum and have room for a result.
FairInit ==
    /\ Init
    /\ Len(depthMap) <= 3
    /\ \A k \in 1 .. Len(depthMap) : depthMap[k] \in {0, 500000, 1000000}
    /\ minInliers = 0
    /\ maxIterations >= 0
    /\ maxPlanes >= 1

\* The thread keeps running, and the uniform draws are fair: a retry loop
\* that can draw a distinct index again and again eventually draws one.
FairSpec ==
    /\ FairInit
    /\ [][Next]_vars
    /\ WF_vars(Next)
    /\ SF_vars(SecondDrawnDistinct)
    /\ SF_vars(ThirdDrawnDistinct)

(***************************************************************************)
(* Calls that exercise the point-cloud builder: well-shaped grids with     *)
(* inverse depths around the validity epsilons and the depth ceiling,      *)
(* principal points inside the grid, and more inliers asked for than the   *)
(* grid has cells, so that the call returns right after the build.         *)
(***************************************************************************)
\* <<width, height>>
BuildShapes == {<<1, 3>>, <<2, 1>>, <<2, 2>>}

\* 9e-6, 1e-5 (the app epsilon; Z = 100000), 5e-4 (Z = 2000), 1e-3 (Z = the
\* ceiling), 0.01 (the android epsilon; Z = 100) and 0.0125 (Z = 80).
BuildInvDepths == {9, 10, 500, 1000, 10000, 12500}

BuildIntrinsics ==
    {UnitIntrinsics,
     [fx |-> 2, fy |-> 2, cx |-> 1, cy |-> 1],
     [fx |-> 1, fy |-> 2, cx |-> 0, cy |-> 1]}

BuilderInit ==
    /\ impl \in Impls
    /\ \E shape \in BuildShapes :
           /\ width = shape[1]
           /\ height = shape[2]
    /\ depthMap \in [1 .. width * height -> BuildInvDepths]
    /\ intrinsics \in BuildIntrinsics
    /\ distanceThreshold \in Thresholds
    /\ minInliers = width * height + 1
    /\ maxIterations = 0
    /\ maxPlanes = 1
    /\ other = NoCall
    /\ jni = NoBridge
    /\ out = FreshOutput(impl, maxPlanes)
    /\ FreshCall

BuilderNext ==
    \/ BuildPointCloud
    \/ EarlyExit

BuilderSpec == BuilderInit /\ [][BuilderNext]_vars

(***************************************************************************)
(* Two calls of the same function on two threads.  Everything a call       *)
(* touches is a parameter or a local of its own activation, so the calls   *)
(* are modelled as two activations of which one takes steps at a time.     *)
(***************************************************************************)
\* The activation taking steps.
Mine ==
    [impl |-> impl, depthMap |-> depthMap, width |-> width,
     height |-> height, distanceThreshold |-> distanceThreshold,
     minInliers |-> minInliers, maxIterations |-> maxIterations,
     maxPlanes |-> maxPlanes, intrinsics |-> intrinsics, pc |-> pc,
     pointCloud |-> pointCloud, iter |-> iter, idx |-> idx,
     bestPlane |-> bestPlane, bestCount |-> bestCount, out |-> out,
     ret |-> ret, rngUsed |-> rngUsed, scored |-> scored]

\* Mutant of Switch: the best model is kept in storage common to all calls.
SwitchSharingBest ==
    /\ other # NoCall
    /\ other' = [Mine EXCEPT !.bestPlane = other.bestPlane,
                             !.bestCount = other.bestCount]
    /\ impl' = other.impl
    /\ depthMap' = other.depthMap
    /\ width' = other.width
    /\ height' = other.height
    /\ distanceThreshold' = other.distanceThreshold
    /\ minInliers' = other.minInliers
    /\ maxIterations' = other.maxIterations
    /\ maxPlanes' = other.maxPlanes
    /\ intrinsics' = other.intrinsics
    /\ pc' = other.pc
    /\ pointCloud' = other.pointCloud
    /\ iter' = other.iter
    /\ idx' = other.idx
    /\ out' = other.out
    /\ ret' = other.ret
    /\ rngUsed' = other.rngUsed
    /\ scored' = other.scored
    /\ UNCHANGED <<jni, bestPlane, bestCount>>

\* The scheduler runs the other thread.
Switch ==
    /\ other # NoCall
    /\ other' = Mine
    /\ impl' = other.impl
    /\ depthMap' = other.depthMap
    /\ width' = other.width
    /\ height' = other.height
    /\ distanceThreshold' = other.distanceThreshold
    /\ minInliers' = other.minInliers
    /\ maxIterations' = other.maxIterations
    /\ maxPlanes' = other.maxPlanes
    /\ intrinsics' = other.intrinsics
    /\ pc' = other.pc
    /\ pointCloud' = other.pointCloud
    /\ iter' = other.iter
    /\ idx' = other.idx
    /\ bestPlane' = other.bestPlane
    /\ bestCount' = other.bestCount
    /\ out' = other.out
    /\ ret' = other.ret
    /\ rngUsed' = other.rngUsed
    /\ scored' = other.scored
    /\ UNCHANGED jni

\* The grids of the two calls: a 2 x 2 grid with one nearer cell, and a
\* 3 x 2 grid whose four valid cells share one depth, three of them in a row.
PairGrids ==
    {[width |-> 2, height |-> 2,
      depthMap |-> <<1000000, 1000000, 1000000, 500000>>],
     [width |-> 3, height |-> 2,
      depthMap |-> <<500000, 500000, 500000, 500000, 0, 0>>]}

PairInit ==
    /\ impl \in Impls
    /\ \E grid \in PairGrids :
           /\ width = grid.width
           /\ height = grid.height
           /\ depthMap = grid.depthMap
    /\ intrinsics = UnitIntrinsics
    /\ distanceThreshold \in Thresholds
    /\ minInliers = 3
    /\ maxIterations = 1
    /\ maxPlanes = 1
    /\ jni = NoBridge
    /\ out = FreshOutput(impl, maxPlanes)
    /\ FreshCall
    /\ \E grid \in PairGrids :
           other = [Mine EXCEPT !.width = grid.width,
                                !.height = grid.height,
                                !.depthMap = grid.depthMap]

PairNext ==
    \/ BuildPointCloud
    \/ StartLoop
    \/ Sample
    \/ SkipCollision
    \/ ResampleSecond
    \/ ResampleThird
    \/ SkipDegenerate
    \/ Score
    \/ Finish
    \/ Switch

PairSpec == PairInit /\ [][PairNext]_vars

(***************************************************************************)
(* The flat-wall scenario: a 4 x 4 grid of inverse depth 0.5 seen with     *)
(* fx = fy = 4, cx = cy = 2, distanceThreshold = 0.05 and minInliers = 10, *)
(* with one or two iterations.                                             *)
(***************************************************************************)
ScenarioInit ==
    /\ impl \in Impls
    /\ width = 4
    /\ height = 4
    /\ depthMap = [k \in 1 .. 16 |-> 500000]
    /\ intrinsics = [fx |-> 4, fy |-> 4, cx |-> 2, cy |-> 2]
    /\ distanceThreshold = 5
    /\ minInliers = 10
    /\ maxIterations \in {1, 2}
    /\ maxPlanes = 1
    /\ other = NoCall
    /\ jni = NoBridge
    /\ out = FreshOutput(impl, maxPlanes)
    /\ FreshCall

ScenarioNext ==
    \/ BuildPointCloud
    \/ StartLoop
    \/ Sample
    \/ SkipCollision
    \/ ResampleSecond
    \/ ResampleThird
    \/ SkipDegenerate
    \/ Score
    \/ Finish

ScenarioSpec == ScenarioInit /\ [][ScenarioNext]_vars

\* The call has returned to its caller.
Returned == pc \in {"exit_early", "exit_final"}

\* The planes handed back to the caller.
Emitted == IF Returned THEN SubSeq(out, 1, ret) ELSE <<>>

(***************************************************************************)
(* The JNI entry Java_..._NdkBridge_detectWallsRansac (jni_bridge.cpp),    *)
(* which calls findPlanesRansac and packages its vector for Java.  A Java  *)
(* float is kept as <<num, m2>>, meaning num / sqrt(m2).                   *)
(***************************************************************************)
\* Integers up to 2^24 convert to float exactly.
FloatExact == 16777216

\* static_cast<jfloat>(int): above 2^24 (and below 2^25) the value is rounded
\* to the nearest even integer, ties to the one whose half is even.
IntToFloat(n) ==
    IF n <= FloatExact THEN n
    ELSE IF n % 2 = 0 THEN n
    ELSE IF ((n - 1) \div 2) % 2 = 0 THEN n - 1 ELSE n + 1

\* nullptr / a Java array.
JNull == [null |-> TRUE, array |-> <<>>]
JArray(a) == [null |-> FALSE, array |-> a]

\* Mutant of JniPlaneArray: the inlier count is left out.
JniPlaneArrayNoCount(r) ==
    <<<<r.plane.n[1], r.plane.m2>>, <<r.plane.n[2], r.plane.m2>>,
      <<r.plane.n[3], r.plane.m2>>, <<r.plane.dn, r.plane.m2>>>>

\* jfloat planeData[5] = {A, B, C, D, static_cast<jfloat>(numInliers)}
JniPlaneArray(r) ==
    <<<<r.plane.n[1], r.plane.m2>>, <<r.plane.n[2], r.plane.m2>>,
      <<r.plane.n[3], r.plane.m2>>, <<r.plane.dn, r.plane.m2>>,
      <<IntToFloat(r.inlierCount), 1>>>>

\* The populated resultArray: element i is made from detectedPlanes[i].
JniResultArray(planes) ==
    [i \in 1 .. Len(planes) |-> JniPlaneArray(planes[i])]

\* The entry has been called with a FloatBuffer that is direct or not.
JniInit ==
    /\ CallInit
    /\ impl = "app"
    /\ \E direct \in BOOLEAN :
           jni = [pc |-> "entry", direct |-> direct, result |-> JNull,
                  failed |-> "none"]

\* Everything of the call itself.
callState == <<inputs, other, pc, pointCloud, iter, idx, bestPlane,
               bestCount, out, ret, rngUsed, scored>>

\* GetDirectBufferAddress returned nullptr: return nullptr.
JniBufferNull ==
    /\ jni.pc = "entry"
    /\ ~jni.direct
    /\ jni' = [jni EXCEPT !.pc = "returned", !.result = JNull]
    /\ UNCHANGED callState

\* The address is not null: findPlanesRansac is called.
JniCalls ==
    /\ jni.pc = "entry"
    /\ jni.direct
    /\ jni' = [jni EXCEPT !.pc = "calling"]
    /\ UNCHANGED callState

\* findPlanesRansac is running under the entry.
InCall == jni.pc = "calling"

\* if (detectedPlanes.empty()) return nullptr;
JniEmptyVector ==
    /\ InCall
    /\ Returned
    /\ out = <<>>
    /\ jni' = [jni EXCEPT !.pc = "returned", !.result = JNull]
    /\ UNCHANGED callState

\* The JNI calls that can return nullptr.
JniSteps == {"FindClass", "NewObjectArray", "NewFloatArray"}

\* FindClass, NewObjectArray or NewFloatArray returned nullptr: return
\* nullptr.
JniAllocationFails ==
    /\ InCall
    /\ Returned
    /\ out # <<>>
    /\ \E step \in JniSteps :
           jni' = [jni EXCEPT !.pc = "returned", !.result = JNull,
                              !.failed = step]
    /\ UNCHANGED callState

\* The loop over detectedPlanes ran to its end: return resultArray.
JniReturnsArray ==
    /\ InCall
    /\ Returned
    /\ out # <<>>
    /\ jni' = [jni EXCEPT !.pc = "returned",
                          !.result = JArray(JniResultArray(out))]
    /\ UNCHANGED callState

JniNext ==
    \/ JniBufferNull
    \/ JniCalls
    \/ InCall /\ ReserveFails
    \/ InCall /\ BuildPointCloud
    \/ InCall /\ ReadFaults
    \/ InCall /\ EarlyExit
    \/ InCall /\ StartLoop
    \/ InCall /\ Sample
    \/ InCall /\ SkipCollision
    \/ InCall /\ SkipDegenerate
    \/ InCall /\ Score
    \/ InCall /\ Finish
    \/ JniEmptyVector
    \/ JniAllocationFails
    \/ JniReturnsArray

JniSpec == JniInit /\ [][JniNext]_vars

(***************************************************************************)
(* Properties.                                                             *)
(***************************************************************************)
\* Slots of the output that hold a plane written by the call.
WrittenSlots == {i \in 1 .. Len(out) : out[i] # Unwritten}

\* C1: one call returns zero or one plane, never more, whatever
\* maxIterations, minInliers and the output capacity are: the count returned
\* is 0 or 1 and at most one slot of the output is ever written.
C1_AtMostOnePlane ==
    /\ Cardinality(WrittenSlots) <= 1
    /\ Len(Emitted) <= 1
    /\ Returned => ret \in {0, 1}

\* C1 witness: a plane is returned after two scored iterations into a buffer
\* with room for two.
C1_Witness ==
    /\ pc = "exit_final"
    /\ impl = "android"
    /\ maxPlanes = 2
    /\ Len(scored) = 2
    /\ ret = 1

\* C2: a cloud of fewer than 3 points, or of fewer points than minInliers,
\* makes the call return the empty result at once: no index is drawn, no
\* iteration runs, whatever maxIterations is.
C2_EarlyExitIsImmediate ==
    (/\ pc \notin {"start", "threw", "crashed"}
     /\ Len(pointCloud) < 3 \/ Len(pointCloud) < minInliers)
    => /\ pc \in {"check", "exit_early"}
       /\ ~rngUsed
       /\ iter = 0
       /\ scored = <<>>
       /\ Returned => (ret = 0 /\ Emitted = <<>> /\ WrittenSlots = {})

\* C2 witness: three points, minInliers of four, a positive iteration budget.
C2_Witness ==
    /\ pc = "exit_early"
    /\ Len(pointCloud) = 3
    /\ minInliers = 4
    /\ maxIterations = 2

\* C3 as stated: after the loop exactly one plane (the retained one) is
\* emitted if the best count is >= minInliers, none otherwise.
C3_AsStated ==
    pc = "exit_final" =>
        IF bestCount >= minInliers
        THEN Emitted = <<PlaneResult(bestPlane, bestCount)>>
        ELSE Emitted = <<>>

\* C3: after the loop exactly one plane, carrying the retained normal, offset
\* and count, is emitted if the best count is >= minInliers and (in
\* detect_walls_ransac) max_planes >= 1, none otherwise; every emitted plane
\* has inlierCount >= minInliers.
C3_PostLoopDecision ==
    /\ pc = "exit_final" =>
           IF bestCount >= minInliers /\ (impl = "android" => maxPlanes >= 1)
           THEN Emitted = <<PlaneResult(bestPlane, bestCount)>>
           ELSE Emitted = <<>> /\ WrittenSlots = {}
    /\ \A i \in 1 .. Len(Emitted) : Emitted[i].inlierCount >= minInliers

\* C3 witness: the best count equals a positive minInliers and the plane is
\* emitted.
C3_Witness ==
    /\ pc = "exit_final"
    /\ minInliers = 4
    /\ bestCount = 4
    /\ Len(Emitted) = 1

\* Largest count among the scored iterations.
MaxScored == CHOOSE c \in {scored[i][2] : i \in 1 .. Len(scored)} :
                 \A j \in 1 .. Len(scored) : scored[j][2] <= c

\* Earliest scored iteration that reached it.
FirstBest == CHOOSE i \in 1 .. Len(scored) :
                 /\ scored[i][2] = MaxScored
                 /\ \A j \in 1 .. i - 1 : scored[j][2] < MaxScored

\* C4: the retained model is replaced exactly when an iteration's count
\* strictly exceeds the best so far, so throughout and at the end of the loop
\* it is the candidate of the earliest scored iteration that reached the
\* largest count (ties keep the earlier one).
C4_FirstBestRetained ==
    (pc \in {"loop", "sampled", "exit_final"} /\ scored # <<>>)
    => /\ bestCount = MaxScored
       /\ bestPlane = scored[FirstBest][1]

\* C4 witness: two scored iterations with equal counts and different planes.
C4_Witness ==
    /\ pc = "exit_final"
    /\ Len(scored) = 2
    /\ scored[1][2] = scored[2][2]
    /\ scored[1][1] # scored[2][1]

\* Two of the three sampled indices are equal.
SampleCollides == idx[1] = idx[2] \/ idx[1] = idx[3] \/ idx[2] = idx[3]

SampleDegenerate ==
    LET p1 == pointCloud[idx[1] + 1]
        p2 == pointCloud[idx[2] + 1]
        p3 == pointCloud[idx[3] + 1]
    IN  Cross(Sub(p2, p1), Sub(p3, p1)) = <<0, 0, 0>>

\* C6: a collinear or coincident sample makes the iteration be skipped: no
\* inlier scan, the retained plane and count unchanged; no NaN plane and no
\* failure reaches the caller.
C6_DegenerateSkipped ==
    /\ [][(pc = "sampled" /\ ~SampleCollides /\ SampleDegenerate) =>
            /\ pc' = "loop"
            /\ iter' = iter + 1
            /\ scored' = scored
            /\ bestPlane' = bestPlane
            /\ bestCount' = bestCount
            /\ UNCHANGED <<out, ret>>]_vars
    /\ [](\A i \in 1 .. Len(scored) : ~scored[i][1].nan)
    /\ [](\A i \in 1 .. Len(Emitted) : ~Emitted[i].plane.nan)

\* C6 witness: every iteration of a call met a degenerate sample and the
\* call returned the empty result although minInliers is 0.
C6_Witness ==
    /\ pc = "exit_final"
    /\ impl = "android"
    /\ maxIterations = 2
    /\ iter = 2
    /\ scored = <<>>
    /\ minInliers = 0
    /\ ret = 0

\* Points of the cloud strictly closer to the plane than the threshold.
Within(plane, thr) ==
    {k \in 1 .. Len(pointCloud) :
        LET s == Dot(plane.n, pointCloud[k]) + plane.dn
        IN  /\ thr > 0
            /\ (s * s) * (ThrDen * ThrDen)
                   < (thr * thr) * plane.m2 * (CoordDen * CoordDen)}

\* Points of the cloud exactly at the threshold distance from the plane.
AtThreshold(plane, thr) ==
    {k \in 1 .. Len(pointCloud) :
        LET s == Dot(plane.n, pointCloud[k]) + plane.dn
        IN  (s * s) * (ThrDen * ThrDen)
                = (thr * thr) * plane.m2 * (CoordDen * CoordDen)}

\* C7: the inlierCount of an emitted plane is the number of points of the
\* whole cloud whose distance to that plane is strictly below the threshold,
\* and the retained plane and count always come from the same candidate.
C7_CountMatchesPlane ==
    /\ \A i \in 1 .. Len(Emitted) :
           Emitted[i].inlierCount =
               Cardinality(Within(Emitted[i].plane, distanceThreshold))
    /\ (pc \in {"loop", "sampled", "exit_final"} /\ scored # <<>>) =>
           /\ \E i \in 1 .. Len(scored) : scored[i] = <<bestPlane, bestCount>>
           /\ bestCount = Cardinality(Within(bestPlane, distanceThreshold))

\* C7 witness: an emitted plane with a point of the cloud exactly at the
\* threshold, which is not counted.
C7_Witness ==
    /\ Len(Emitted) = 1
    /\ AtThreshold(Emitted[1].plane, distanceThreshold) # {}
    /\ Emitted[1].inlierCount < Len(pointCloud)

\* C8: the normal of an emitted plane has magnitude 1, and the plane is the
\* candidate of a scored iteration, never the zero placeholder or a NaN
\* plane, for every minInliers and maxIterations.
C8_UnitNormal ==
    \A i \in 1 .. Len(Emitted) :
        LET p == Emitted[i].plane
        IN  /\ ~p.nan
            /\ p.m2 > 0
            /\ Dot(p.n, p.n) = p.m2
            /\ p # ZeroPlane
            /\ \E j \in 1 .. Len(scored) : scored[j][1] = p

\* C8 witness: a plane is emitted with minInliers = 0 after an iteration
\* that was skipped.
C8_Witness ==
    /\ Len(Emitted) = 1
    /\ minInliers = 0
    /\ iter = 2
    /\ Len(scored) = 1

\* The call's shape is wrong: a dimension is not positive or the buffer
\* length is not width * height.
ShapeError == width <= 0 \/ height <= 0 \/ Len(depthMap) # width * height

\* C9: a call with a wrong shape is rejected as a hard failure before any
\* processing, so that it never reaches the point-cloud check nor returns
\* like an ordinary call.
C9_ShapeRejected == ShapeError => pc \in {"start", "threw"}

\* Validity epsilon of the function called.
ValidityEps == IF impl = "app" THEN EpsApp ELSE EpsAndroid

\* A well-shaped grid all of whose cells are below the validity epsilon.
AllBelowEps ==
    /\ ~ShapeError
    /\ \A k \in 1 .. Len(depthMap) : depthMap[k] < ValidityEps

\* C10: when every cell is below the validity epsilon the cloud is empty and
\* the call returns the empty result without any failure.
C10_EmptyGridEmptyResult ==
    (AllBelowEps /\ pc # "start") =>
        /\ pointCloud = <<>>
        /\ pc = "check" \/ (pc = "exit_early" /\ ret = 0 /\ Emitted = <<>>)

\* C10 witness: a 2 x 2 grid of cells below the epsilon, not all zero, has
\* returned.
C10_Witness ==
    /\ AllBelowEps
    /\ Len(depthMap) = 4
    /\ \E k \in 1 .. 4 : depthMap[k] > 0
    /\ pc = "exit_early"

\* The number of iterations a loop bounded by m performs.
LoopLength(m) == IF m > 0 THEN m ELSE 0

\* C16: there is no early termination: when the loop is left the counter has
\* reached maxIterations, also after a candidate counted the whole cloud, and
\* nothing of the result is decided while the loop runs.
C16_AllIterationsRun ==
    /\ pc = "exit_final" => iter = LoopLength(maxIterations)
    /\ pc \in {"loop", "sampled"} =>
           /\ iter <= LoopLength(maxIterations)
           /\ out = FreshOutput(impl, maxPlanes)
           /\ ret = -1

\* C16 witness: the first of two iterations counted the whole cloud, the
\* second was scored as well, and the call has returned.
C16_Witness ==
    /\ pc = "exit_final"
    /\ maxIterations = 2
    /\ Len(scored) = 2
    /\ scored[1][2] = Len(pointCloud)

\* C19: no step of a call changes the caller's depth buffer, and no step
\* taken once the loop has started changes the point cloud.
C19_BuffersReadOnly ==
    [][/\ depthMap' = depthMap
       /\ pc \in {"loop", "sampled"} => pointCloud' = pointCloud]_vars

\* C19 witness: a call has scored two candidates over a cloud that is still
\* the one built from the buffer.
C19_Witness ==
    /\ Len(scored) = 2
    /\ Len(pointCloud) = 4
    /\ pointCloud = BuildCloud(impl, depthMap, width, height)

\* C20: detect_walls_ransac writes the caller's buffer only when it returns
\* 1, then only element 0 and only when max_planes >= 1; when it returns 0
\* the buffer is as the caller passed it; the value returned is the number of
\* entries written.
C20_BufferWrites ==
    impl = "android" =>
        /\ ~Returned => out = FreshOutput(impl, maxPlanes)
        /\ Returned =>
               /\ ret \in {0, 1}
               /\ ret = Cardinality(WrittenSlots)
               /\ ret = 1 => maxPlanes >= 1 /\ WrittenSlots = {1}
               /\ ret = 0 => out = FreshOutput(impl, maxPlanes)

\* C20 witness: a call with a buffer of two entries returned 1 and left the
\* second entry untouched.
C20_Witness ==
    /\ impl = "android"
    /\ pc = "exit_final"
    /\ ret = 1
    /\ maxPlanes = 2
    /\ out[1] # Unwritten
    /\ out[2] = Unwritten

\* The builder has run.
Built == pc \in {"check", "exit_early"}

\* Z of the j-th point of the cloud, in units of 1/CoordDen.
PointZ(j) == pointCloud[j][3]

\* Z = 1 / inverseDepth of buffer entry k, in units of 1/CoordDen.
CellZ(k) == CoordDen * (InvScale \div depthMap[k])

\* Buffer entries strictly above the validity epsilon.
AboveEps == {k \in 1 .. Len(depthMap) : depthMap[k] > ValidityEps}

\* C11: a cell contributes a point only if its inverse depth is strictly
\* greater than the validity epsilon: the cloud has no more points than there
\* are such cells and every point has the depth of one of them, so a cell
\* exactly at the epsilon contributes nothing.
C11_AtOrBelowEpsSkipped ==
    Built =>
        /\ Len(pointCloud) <= Cardinality(AboveEps)
        /\ \A j \in 1 .. Len(pointCloud) :
               \E k \in AboveEps : PointZ(j) = CellZ(k)

\* C11 witness: a grid with a cell exactly at the epsilon and a single cell
\* above it was built into a cloud of one point.
C11_Witness ==
    /\ Built
    /\ \E k \in 1 .. Len(depthMap) : depthMap[k] = ValidityEps
    /\ Cardinality(AboveEps) = 1
    /\ Len(pointCloud) = 1

\* Buffer entries with a positive inverse depth whose Z is at most the
\* ceiling.
WithinCeiling ==
    {k \in 1 .. Len(depthMap) :
        depthMap[k] > 0 /\ InvScale \div depthMap[k] <= ZCeiling}

\* C12: every point of the cloud has the depth Z = 1 / inverseDepth of a
\* cell, with 0 < Z <= ceiling, and cells whose Z exceeds the ceiling
\* contribute no point.
C12_DepthWithinCeiling ==
    Built =>
        /\ Len(pointCloud) <= Cardinality(WithinCeiling)
        /\ \A j \in 1 .. Len(pointCloud) :
               /\ 0 < PointZ(j)
               /\ PointZ(j) <= ZCeiling * CoordDen
               /\ \E k \in WithinCeiling : PointZ(j) = CellZ(k)

\* C12 witness: findPlanesRansac kept the only cell exactly at the ceiling and
\* skipped a cell above the epsilon whose Z is beyond the ceiling.
C12_Witness ==
    /\ Built
    /\ impl = "app"
    /\ \E k \in 1 .. Len(depthMap) :
           depthMap[k] > EpsApp /\ InvScale \div depthMap[k] > ZCeiling
    /\ Len(pointCloud) = 1
    /\ PointZ(1) = ZCeiling * CoordDen

\* Row-major indices (from 0) of the cells that pass the validity test.
ValidCells == {k \in 0 .. Len(depthMap) - 1 : CellValid(impl, depthMap[k + 1])}

\* The j-th valid cell in row-major order.
NthValidCell(j) ==
    CHOOSE k \in ValidCells : Cardinality({i \in ValidCells : i < k}) = j - 1

\* The point the specification gives for the cell of row-major index k, in
\* units of 1/CoordDen.
FlippedPoint(k) ==
    LET u == k % width
        v == k \div width
        Z == InvScale \div depthMap[k + 1]
    IN  <<(u - cx) * Z * (CoordDen \div fx),
          -((v - cy) * Z * (CoordDen \div fy)),
          Z * CoordDen>>

\* C13: the point of every valid cell (u, v) has X = (u - cx) * Z / fx and
\* Y = -((v - cy) * Z / fy).
C13_YFlipped ==
    Built =>
        /\ Len(pointCloud) = Cardinality(ValidCells)
        /\ \A j \in 1 .. Len(pointCloud) :
               pointCloud[j] = FlippedPoint(NthValidCell(j))

\* What the caller of activation c can see of its result.
Result(c) == IF c.impl = "app" THEN c.out ELSE <<c.ret, c.out>>

\* C14: two runs of the estimator with identical inputs produce identical
\* output.
C14_SameInputsSameOutput ==
    (/\ other # NoCall
     /\ pc = "exit_final"
     /\ other.pc = "exit_final"
     /\ other.depthMap = depthMap
     /\ other.width = width
     /\ other.height = height)
    => Result(other) = Result(Mine)

\* The retained model after the scored iterations hist.
BestOf(hist) ==
    IF hist = <<>> THEN <<ZeroPlane, -1>>
    ELSE LET top == CHOOSE c \in {hist[i][2] : i \in 1 .. Len(hist)} :
                        \A j \in 1 .. Len(hist) : hist[j][2] <= c
             first == CHOOSE i \in 1 .. Len(hist) :
                          /\ hist[i][2] = top
                          /\ \A j \in 1 .. i - 1 : hist[j][2] < top
         IN  hist[first]

\* The candidates activation c can score: those of the triples of its own
\* cloud, counted over its own cloud with its own threshold.
OwnCandidates(c) ==
    LET cloud == BuildCloud(c.impl, c.depthMap, c.width, c.height)
        n == Len(cloud)
    IN  {<<Candidate(c.impl, cloud[t[1]], cloud[t[2]], cloud[t[3]]).plane,
           CountInliers(cloud,
               Candidate(c.impl, cloud[t[1]], cloud[t[2]], cloud[t[3]]).plane,
               c.distanceThreshold)>> :
            t \in {x \in (1 .. n) \X (1 .. n) \X (1 .. n) :
                      /\ x[1] # x[2] /\ x[1] # x[3] /\ x[2] # x[3]
                      /\ ~Candidate(c.impl, cloud[x[1]], cloud[x[2]],
                                    cloud[x[3]]).skip}}

\* Activation c is what it would be running alone with its inputs and its
\* draws: its cloud is built from its grid, its history holds candidates of
\* its cloud, its retained model is the first best of its history, and its
\* result is packaged from that model.
RunsAsAlone(c) ==
    /\ c.pointCloud = (IF c.pc = "start" THEN <<>>
                       ELSE BuildCloud(c.impl, c.depthMap, c.width, c.height))
    /\ \A i \in 1 .. Len(c.scored) : c.scored[i] \in OwnCandidates(c)
    /\ <<c.bestPlane, c.bestCount>> = BestOf(c.scored)
    /\ c.out = (IF c.pc # "exit_final" THEN FreshOutput(c.impl, c.maxPlanes)
                ELSE IF c.impl = "app"
                THEN PackageApp(c.bestPlane, c.bestCount, c.minInliers)
                ELSE PackageAndroid(FreshOutput(c.impl, c.maxPlanes),
                                    c.bestPlane, c.bestCount, c.minInliers,
                                    c.maxPlanes))

\* C18: under every interleaving of two calls each call is what it would be
\* when run alone with its inputs and its draws: the two share nothing.
C18_CallsIndependent ==
    /\ RunsAsAlone(Mine)
    /\ other # NoCall => RunsAsAlone(other)

\* C18 witness: two calls on different grids have both returned a plane, each
\* with a count the other grid cannot give a different call.
C18_Witness ==
    /\ other # NoCall
    /\ pc = "exit_final"
    /\ other.pc = "exit_final"
    /\ other.depthMap # depthMap
    /\ Len(scored) = 1
    /\ Len(other.scored) = 1
    /\ bestCount # other.bestCount

\* C15: every call ends; the cloud has at most one point per cell of the
\* grid; the loop counter never passes maxIterations; and no index is drawn,
\* so no retry loop entered, with a cloud of fewer than 3 points.
C15_Terminates ==
    /\ [](pc \notin {"start", "threw", "crashed"} =>
             Len(pointCloud) <= CellsRead(width, height))
    /\ [](iter <= LoopLength(maxIterations))
    /\ [](pc = "sampled" => Len(pointCloud) >= 3)
    /\ <>Terminated

\* C15 witness: detect_walls_ransac has returned after MaxIter scored
\* iterations over a cloud of exactly 3 points.
C15_Witness ==
    /\ impl = "android"
    /\ pc = "exit_final"
    /\ Len(pointCloud) = 3
    /\ iter = MaxIter
    /\ Len(scored) = MaxIter

\* Every scored candidate counted the whole cloud.
ScoredCountWholeCloud ==
    \A i \in 1 .. Len(scored) : scored[i][2] = Len(pointCloud)

IndicesInBounds ==
    \A i \in 1 .. 3 : 0 <= idx[i] /\ idx[i] <= Len(pointCloud) - 1

\* The three indices are pairwise distinct.
IndicesDistinct == idx[1] # idx[2] /\ idx[1] # idx[3] /\ idx[2] # idx[3]

\* C21: whenever indices have been drawn they are positions of the cloud, so
\* the cloud is never indexed out of bounds, and every candidate that is
\* scored is the plane of three pairwise distinct positions.
C21_IndicesDistinctInBounds ==
    /\ [](pc = "sampled" => Len(pointCloud) >= 3 /\ IndicesInBounds)
    /\ [][scored' # scored =>
             /\ IndicesDistinct
             /\ scored'[Len(scored')][1] =
                    Candidate(impl, pointCloud[idx[1] + 1],
                              pointCloud[idx[2] + 1],
                              pointCloud[idx[3] + 1]).plane]_vars

\* C21 witness: findPlanesRansac, having scored one candidate, has drawn
\* three distinct indices the last of which is the top position of the cloud.
C21_Witness ==
    /\ impl = "app"
    /\ pc = "sampled"
    /\ Len(scored) = 1
    /\ IndicesDistinct
    /\ idx[3] = Len(pointCloud) - 1

\* What the entry returns when no JNI call fails.
BridgeExpected ==
    IF ~jni.direct \/ out = <<>> THEN JNull
    ELSE JArray([i \in 1 .. Len(out) |->
                   <<<<out[i].plane.n[1], out[i].plane.m2>>,
                     <<out[i].plane.n[2], out[i].plane.m2>>,
                     <<out[i].plane.n[3], out[i].plane.m2>>,
                     <<out[i].plane.dn, out[i].plane.m2>>,
                     <<out[i].inlierCount, 1>>>>])

\* The entry returned without findPlanesRansac having been called.
NeverCalled == pc = "start" /\ pointCloud = <<>> /\ ~rngUsed

\* C22 as stated: the entry returns null without calling findPlanesRansac
\* when the buffer address is null, null when the vector is empty, and
\* otherwise an array with one 5-element float array per plane, in order.
C22_AsStated ==
    jni.pc = "returned" =>
        /\ ~jni.direct => NeverCalled
        /\ jni.direct => Returned
        /\ jni.result = BridgeExpected

\* C22: the entry returns null without calling findPlanesRansac when the
\* buffer address is null, and null when the vector is empty, be it for too
\* few points or for no qualifying plane; otherwise it returns null if a JNI
\* lookup or allocation failed and else an array with one 5-element float
\* array [A, B, C, D, numInliers] per plane, in order.
C22_BridgeResult ==
    jni.pc = "returned" =>
        /\ ~jni.direct => NeverCalled
        /\ jni.direct => Returned
        /\ jni.result = (IF jni.failed # "none" THEN JNull ELSE BridgeExpected)
        /\ jni.failed # "none" => jni.direct /\ out # <<>>
        /\ ~jni.result.null =>
               \A i \in 1 .. Len(jni.result.array) :
                   Len(jni.result.array[i]) = 5
        /\ (pc = "exit_early" \/ bestCount < minInliers) => jni.result = JNull

\* C22 witness: the entry returned an array of one plane of 4 inliers.
C22_Witness ==
    /\ jni.pc = "returned"
    /\ ~jni.result.null
    /\ Len(jni.result.array) = 1
    /\ jni.result.array[1][5] = <<4, 1>>

====
